---- MODULE Spec2Model ----
(***************************************************************************)
(* A model of scan-probe.js: the quote adapters, the route evaluators, the *)
(* cost model, the per-cycle orchestration with its CSV sink, and the      *)
(* ranking/report step, driven by the endless poll loop of main().         *)
(*                                                                         *)
(* Text is modelled as a sequence of one-character strings, except for a   *)
(* few literals fixed by the code (route types, leg descriptions, the ISO  *)
(* timestamp), which are kept as one token each: none of them contains a   *)
(* field separator.  A JavaScript value that may or may not be a bigint is *)
(* a record [t, v] with t = "bigint" or t = "null".                        *)
(***************************************************************************)
EXTENDS Integers, Sequences, FiniteSets, TLC

\* ---------------------------------------------------------------- bounds

\* Quote calls a run may issue (the poll loop itself never ends).
MaxCalls == 13

\* Entries pushed into a batch in the ranking specification.
MaxBatch == 11

\* The profits (in absolute value) and the inputs safePctBps is applied to.
MaxPnl == 7

MaxInput == 7
\* Error messages persisted on their own are up to this long (beyond the cap
\* of the note).
MaxMsgLen == 165
\* Gas estimates of the configuration, when the estimate is applied on its
\* own, range over 0..MaxGasEstimate.
MaxGasEstimate == 3

\* ------------------------------------------------------- program constants

\* .slice(0, 10) of the ranked list.
TopN == 10

\* .slice(0, 160) of the escaped error message.
NoteCap == 160

\* The divisor of a basis-point amount.
BpsDenom == 10000

\* parseUnits(_, "gwei").
GweiDecimals == 9

\* formatUnits(_, 18) and the 8 fractional digits kept by bnToFloatStr.
DisplayDecimals == 18

MaxDp == 8

\* ------------------------------------------------------------- text helpers

Digits == <<"0", "1", "2", "3", "4", "5", "6", "7", "8", "9">>

DigitVal(c) == [d \in {Digits[i] : i \in 1..10} |-> (CHOOSE i \in 1..10 : Digits[i] = d) - 1][c]

RECURSIVE NatStr(_)
NatStr(n) == IF n < 10 THEN <<Digits[n + 1]>>
             ELSE NatStr(n \div 10) \o <<Digits[(n % 10) + 1]>>

\* BigInt.prototype.toString() and Number.prototype.toString() of an integer.
ToStr(n) == IF n < 0 THEN <<"-">> \o NatStr(-n) ELSE NatStr(n)

\* The number the first k digits of s write.
RECURSIVE DigitsValTo(_, _)
DigitsValTo(s, k) == IF k = 0 THEN 0 ELSE 10 * DigitsValTo(s, k - 1) + DigitVal(s[k])

DigitsVal(s) == DigitsValTo(s, Len(s))

RECURSIVE Pow10(_)
Pow10(k) == IF k = 0 THEN 1 ELSE 10 * Pow10(k - 1)

RECURSIVE Zeros(_)
Zeros(k) == IF k <= 0 THEN <<>> ELSE <<"0">> \o Zeros(k - 1)

\* Index of the first c in s at or after position i, or 0.
RECURSIVE IndexFrom(_, _, _)
IndexFrom(s, c, i) == IF i > Len(s) THEN 0
                      ELSE IF s[i] = c THEN i
                      ELSE IndexFrom(s, c, i + 1)

\* String.prototype.indexOf(c), counted from 1 (0: not found).
IndexOf(s, c) == IndexFrom(s, c, 1)

\* ethers.parseUnits of a non-negative decimal string with at most dec
\* fractional digits.
\* (Each part is computed once: it is drawn from a one-element set.)
ParseUnits(s, dec) ==
  LET Parts(dot) == [int |-> IF dot = 0 THEN s ELSE SubSeq(s, 1, dot - 1),
                     frac |-> IF dot = 0 THEN <<>> ELSE SubSeq(s, dot + 1, Len(s))]
      Value(p) ==
        CHOOSE n \in {DigitsVal(p.int) * Pow10(dec) + DigitsVal(padded) :
                        padded \in {p.frac \o Zeros(dec - Len(p.frac))}} : TRUE
  IN CHOOSE n \in {Value(p) : p \in {Parts(dot) : dot \in {IndexOf(s, ".")}}} : TRUE

\* String.prototype.replaceAll(from, to) for one-character strings.
ReplaceAll(s, from, to) == [i \in 1..Len(s) |-> IF s[i] = from THEN to ELSE s[i]]

\* String.prototype.slice(0, n).
Slice0(s, n) == SubSeq(s, 1, IF Len(s) < n THEN Len(s) ELSE n)

\* Array.prototype.join(",") of a sequence of texts.
RECURSIVE JoinComma(_)
JoinComma(fs) == IF fs = <<>> THEN <<>>
                 ELSE IF Len(fs) = 1 THEN fs[1]
                 ELSE fs[1] \o <<",">> \o JoinComma(Tail(fs))

\* The fields of a line: the texts between its separators.
RECURSIVE SplitComma(_)
SplitComma(s) ==
  LET k == IndexOf(s, ",")
  IN IF k = 0 THEN <<s>>
     ELSE <<SubSeq(s, 1, k - 1)>> \o SplitComma(SubSeq(s, k + 1, Len(s)))

\* ------------------------------------------------------------ JS values

BigIntV(n) == [t |-> "bigint", v |-> n]

NullV == [t |-> "null", v |-> 0]

IsBigInt(x) == x.t = "bigint"

\* BigInt division: truncates toward zero.
TruncDiv(a, b) ==
  LET q == (IF a < 0 THEN -a ELSE a) \div (IF b < 0 THEN -b ELSE b)
  IN IF (a < 0) = (b < 0) THEN q ELSE -q

\* Number(bigint): exact for the magnitudes of the model (below 2^53).
ToNumber(n) == n

\* ------------------------------------------------------------ helpers

\* nowIso(): an ISO-8601 instant, one token (the clock is not modelled).
nowIso == <<"2026-01-01T00:00:00.000Z">>

\* ethers.formatUnits(n, dec): sign, integer part, ".", fraction without
\* trailing zeros (at least one digit).
RECURSIVE StripZerosTo(_, _)
StripZerosTo(f, k) == IF k > 1 /\ f[k] = "0" THEN StripZerosTo(f, k - 1) ELSE SubSeq(f, 1, k)

StripTrailingZeros(f) == CHOOSE t \in {StripZerosTo(g, Len(g)) : g \in {f}} : TRUE

\* (The padded digits are computed once: drawn from a one-element set.)
FormatUnitsParts(n, dec) ==
  LET abs == IF n < 0 THEN -n ELSE n
      Parts(str) == [neg |-> n < 0,
                     int |-> SubSeq(str, 1, Len(str) - dec),
                     frac |-> StripTrailingZeros(SubSeq(str, Len(str) - dec + 1, Len(str)))]
  IN CHOOSE p \in {Parts(str) :
                     str \in {Zeros(dec + 1 - Len(raw)) \o raw : raw \in {NatStr(abs)}}} : TRUE

bnToFloatStr(bn, decimals, maxDp) ==
  IF ~IsBigInt(bn) THEN <<"0">>
  ELSE LET Text(p) ==
             LET int == (IF p.neg THEN <<"-">> ELSE <<>>) \o p.int
             IN IF maxDp = 0 THEN int
                ELSE IF Len(p.frac) > maxDp THEN int \o <<".">> \o SubSeq(p.frac, 1, maxDp)
                ELSE int \o <<".">> \o p.frac
       IN CHOOSE t \in {Text(p) : p \in {FormatUnitsParts(bn.v, decimals)}} : TRUE

\* A basis-point return rounded down instead of toward zero.
safePctBpsFloor(pnl, input) ==
  IF input = 0 THEN 0 ELSE ToNumber((pnl * BpsDenom) \div input)

safePctBps(pnl, input) ==
  IF input = 0 THEN 0 ELSE ToNumber(TruncDiv(pnl * BpsDenom, input))

\* ------------------------------------------------------------ gas & fees

\* An estimate whose cross-version cases are spelt with "->".
estimateGasUnitsAsciiLabels(routeType, cfg) ==
  CASE routeType \in {"V2->V3", "V3->V2"} -> cfg.gasEstimates.v2Swap + cfg.gasEstimates.v3Swap
    [] routeType = "TRI" -> cfg.gasEstimates.v2Swap * 3
    [] routeType \in {"TRI_WOMBAT_A", "TRI_WOMBAT_B"} ->
         cfg.gasEstimates.v2Swap * 2 + cfg.gasEstimates.wombatSwap
    [] OTHER -> cfg.gasEstimates.v2Swap * 2

estimateGasUnitsForRoute(routeType, cfg) ==
  CASE routeType \in {"V2→V3", "V3→V2"} -> cfg.gasEstimates.v2Swap + cfg.gasEstimates.v3Swap
    [] routeType = "TRI" -> cfg.gasEstimates.v2Swap * 3
    [] routeType \in {"TRI_WOMBAT_A", "TRI_WOMBAT_B"} ->
         cfg.gasEstimates.v2Swap * 2 + cfg.gasEstimates.wombatSwap
    [] OTHER -> cfg.gasEstimates.v2Swap * 2

flashloanFeeInWBNB(amountInWBNB, cfg) == TruncDiv(amountInWBNB * cfg.flashloanFeeBps, BpsDenom)

gasCostInWBNB(gasPriceWei, gasUnits) == gasPriceWei * gasUnits

\* ------------------------------------------------------------ configuration

\* probe.config.json, as loadJson returns it: two trade sizes "0.01" and
\* "0.02" of a base asset with 5 decimals (1000 and 2000 smallest units).
Configs ==
  { [ sizesWBNB |-> << <<"0", ".", "0", "1">>, <<"0", ".", "0", "2">> >>,
      tokens |-> [ WBNB |-> [address |-> "WBNB", decimals |-> 5],
                   USDT |-> [address |-> "USDT", decimals |-> 5],
                   USDC |-> [address |-> "USDC", decimals |-> 5],
                   BUSD |-> [address |-> "BUSD", decimals |-> 5] ],
      v3FeeTiers |-> ("USDT/WBNB" :> 500 @@ "WBNB/USDT" :> 2500),
      gasEstimates |-> [ v2Swap |-> 2, v3Swap |-> 3, wombatSwap |-> 4 ],
      flashloanFeeBps |-> 15,
      defaultGasPriceGwei |-> <<"0", ".", "0", "0", "0", "0", "0", "0", "0", "0", "2">>,
      pollIntervalMs |-> 5000 ] }

\* The sizes used when the configuration lists none.
DefaultSizes == << <<"0", ".", "0", "1">>, <<"0", ".", "0", "2">>,
                   <<"0", ".", "0", "5">>, <<"0", ".", "1">> >>

sizesWBNB(c) == IF Len(c.sizesWBNB) > 0 THEN c.sizesWBNB ELSE DefaultSizes

\* The gas price used when the fee data carries none.
DefaultGasPrice(c) ==
  ParseUnits(IF c.defaultGasPriceGwei # <<>> THEN c.defaultGasPriceGwei ELSE <<"3">>,
             GweiDecimals)

CSV_HEADERS == <<"timestamp", "routeType", "size", "legs", "in", "out", "pnl", "bps",
                 "gasCostWBNB", "flashFeeWBNB", "netPnl", "note">>

\* ------------------------------------------------------------ environment

\* What the chain answers during a run: the gas price of the fee data (0:
\* the fee data carries none), each pool hop of a protocol moves the amount
\* by a fixed delta, and each contract method, when it fails, fails with a
\* fixed error object (reason empty: the error has none).  Whether a call
\* fails is decided call by call.
Envs ==
  { [ gasPrice |-> 1,
      delta |-> [V2 |-> 50, V3 |-> -10, W |-> -120],
      err |-> [ getAmountsOut |-> [reason |-> <<"K">>, message |-> <<"m", "1">>],
                quoteExactInputSingle |-> [reason |-> <<>>, message |-> <<"p", ",", "q">>],
                quoteExactInput |-> [reason |-> <<"f", ",">>, message |-> <<"m", "2">>],
                quotePotentialSwap |-> [reason |-> <<>>, message |-> <<"w">>] ] ],
    [ gasPrice |-> 0,
      delta |-> [V2 |-> -30, V3 |-> 10, W |-> 0],
      err |-> [ getAmountsOut |-> [reason |-> <<>>, message |-> <<"a", ",", "b">>],
                quoteExactInputSingle |-> [reason |-> <<"P">>, message |-> <<"m", "3">>],
                quoteExactInput |-> [reason |-> <<>>, message |-> <<"F">>],
                quotePotentialSwap |-> [reason |-> <<"W", ",">>, message |-> <<"m", "4">>] ] ] }

\* The error ethers raises, before any request, for an amount that is no
\* BigNumberish (null).
InvalidArgument ==
  [reason |-> <<>>,
   message |-> <<"i", "n", "v", "a", "l", "i", "d", " ", "v", "a", "l", "u", "e", ",", " ",
                 "n", "u", "l", "l">>]

Moved(x, d) == IF x + d < 0 THEN 0 ELSE x + d

\* getAmountsOut: one amount per token of the path, the input first.
V2Amounts(e, amountIn, path) == [i \in 1..Len(path) |-> Moved(amountIn, (i - 1) * e.delta.V2)]

\* The shapes a quoter call may resolve to, each as [shape, items].
V3Shapes(e, amountIn) ==
  LET v == Moved(amountIn, e.delta.V3)
  IN { [shape |-> "bigint", items |-> <<v>>],
       [shape |-> "array", items |-> <<v, 7, 1, 9>>],
       [shape |-> "record", items |-> <<v>>],
       [shape |-> "other", items |-> <<>>] }

\* quotePotentialSwap: (potentialOutcome, haircut).
WombatResult(e, amountIn) == <<Moved(amountIn, e.delta.W), 1>>

\* e.reason || e.message
ReasonOrMessage(e) == IF e.reason # <<>> THEN e.reason ELSE e.message

\* ------------------------------------------------------------ quote adapters

V2Prefix == <<"V", "2", " ", "q", "u", "o", "t", "e", " ", "f", "a", "i", "l", "e", "d", ":", " ">>

V3Prefix == <<"V", "3", " ", "q", "u", "o", "t", "e", " ", "f", "a", "i", "l", "e", "d", ":", " ">>

V3Middle == <<" ", "(", "f", "a", "l", "l", "b", "a", "c", "k", " ", "a", "f", "t", "e", "r", ":", " ">>

WombatPrefix == <<"W", "o", "m", "b", "a", "t", " ", "q", "u", "o", "t", "e", " ", "f", "a", "i", "l", "e", "d", ":", " ">>

\* quoteV2: the last amount of the array, or the wrapped error.
quoteV2Result(amounts) == BigIntV(amounts[Len(amounts)])

quoteV2Error(e) == V2Prefix \o ReasonOrMessage(e)

\* quoteV3Single: the value extracted from whatever the call resolved to.
quoteV3Normalise(out) ==
  CASE out.shape = "bigint" -> BigIntV(out.items[1])
    [] out.shape = "array" -> BigIntV(out.items[1])
    [] out.shape = "record" -> BigIntV(out.items[1])
    [] OTHER -> NullV

\* An error that tells of the second failure only.
quoteV3ErrorLastOnly(e2, e1) == V3Prefix \o ReasonOrMessage(e2)

\* quoteV3Single: the error thrown when the fallback call fails too.
quoteV3Error(e2, e1) ==
  V3Prefix \o ReasonOrMessage(e2) \o V3Middle \o ReasonOrMessage(e1) \o <<")">>

quoteWombatResult(res) == BigIntV(res[1])

quoteWombatError(e) == WombatPrefix \o ReasonOrMessage(e)

\* ------------------------------------------------------------ route evaluators

\* The routes in the order main() evaluates them for one size:
\* evalCrossVersion "V2->V3", "V3->V2", evalTriangleV2, evalTriangleWombat A, B.
Routes == 1..5

\* A single-DEX triangle quoted hop by hop.
LegsTriangleChained(route, c) ==
  LET t == c.tokens
  IN CASE route = 1 -> << [proto |-> "V2", path |-> <<t.WBNB.address, t.USDT.address>>, fee |-> 0],
                         [proto |-> "V3", path |-> <<t.USDT.address, t.WBNB.address>>,
                          fee |-> c.v3FeeTiers["USDT/WBNB"]] >>
       [] route = 2 -> << [proto |-> "V3", path |-> <<t.WBNB.address, t.USDT.address>>,
                          fee |-> c.v3FeeTiers["WBNB/USDT"]],
                         [proto |-> "V2", path |-> <<t.USDT.address, t.WBNB.address>>, fee |-> 0] >>
       [] route = 3 -> << [proto |-> "V2", path |-> <<t.WBNB.address, t.USDT.address>>, fee |-> 0],
                         [proto |-> "V2", path |-> <<t.USDT.address, t.BUSD.address>>, fee |-> 0],
                         [proto |-> "V2", path |-> <<t.BUSD.address, t.WBNB.address>>, fee |-> 0] >>
       [] route = 4 -> << [proto |-> "V2", path |-> <<t.WBNB.address, t.USDT.address>>, fee |-> 0],
                         [proto |-> "W", path |-> <<t.USDT.address, t.USDC.address>>, fee |-> 0],
                         [proto |-> "V2", path |-> <<t.USDC.address, t.WBNB.address>>, fee |-> 0] >>
       [] route = 5 -> << [proto |-> "V2", path |-> <<t.WBNB.address, t.USDC.address>>, fee |-> 0],
                         [proto |-> "W", path |-> <<t.USDC.address, t.USDT.address>>, fee |-> 0],
                         [proto |-> "V2", path |-> <<t.USDT.address, t.WBNB.address>>, fee |-> 0] >>

\* The quote calls a route chains, in order.  A V3 or Wombat leg's path is
\* <<tokenIn, tokenOut>>.
Legs(route, c) ==
  LET t == c.tokens
  IN CASE route = 1 -> << [proto |-> "V2", path |-> <<t.WBNB.address, t.USDT.address>>, fee |-> 0],
                         [proto |-> "V3", path |-> <<t.USDT.address, t.WBNB.address>>,
                          fee |-> c.v3FeeTiers["USDT/WBNB"]] >>
       [] route = 2 -> << [proto |-> "V3", path |-> <<t.WBNB.address, t.USDT.address>>,
                          fee |-> c.v3FeeTiers["WBNB/USDT"]],
                         [proto |-> "V2", path |-> <<t.USDT.address, t.WBNB.address>>, fee |-> 0] >>
       [] route = 3 -> << [proto |-> "V2",
                          path |-> <<t.WBNB.address, t.USDT.address, t.BUSD.address, t.WBNB.address>>,
                          fee |-> 0] >>
       [] route = 4 -> << [proto |-> "V2", path |-> <<t.WBNB.address, t.USDT.address>>, fee |-> 0],
                         [proto |-> "W", path |-> <<t.USDT.address, t.USDC.address>>, fee |-> 0],
                         [proto |-> "V2", path |-> <<t.USDC.address, t.WBNB.address>>, fee |-> 0] >>
       [] route = 5 -> << [proto |-> "V2", path |-> <<t.WBNB.address, t.USDC.address>>, fee |-> 0],
                         [proto |-> "W", path |-> <<t.USDC.address, t.USDT.address>>, fee |-> 0],
                         [proto |-> "V2", path |-> <<t.USDT.address, t.WBNB.address>>, fee |-> 0] >>

\* The routeType an evaluator puts in its outcome.
RouteTypeOf(route) ==
  CASE route = 1 -> "V2→V3"
    [] route = 2 -> "V3→V2"
    [] route = 3 -> "TRI"
    [] route = 4 -> "TRI_WOMBAT_A"
    [] route = 5 -> "TRI_WOMBAT_B"

\* The leg description of a successful outcome.
LegsText(route) ==
  CASE route = 1 -> "V2->V3:WBNB->USDT->WBNB"
    [] route = 2 -> "V3->V2:WBNB->USDT->WBNB"
    [] route = 3 -> "TRI_V2:WBNB->USDT->BUSD->WBNB"
    [] route = 4 -> "TRI_WOMBAT_A:WBNB->USDT (V2)->USDC (Wombat)->WBNB (V2)"
    [] route = 5 -> "TRI_WOMBAT_B:WBNB->USDC (V2)->USDT (Wombat)->WBNB (V2)"

\* A V3 leg that calls the single-pool form again after it failed.
MethodOfPrimaryOnly(leg, form) ==
  CASE leg.proto = "V2" -> "getAmountsOut"
    [] leg.proto = "V3" -> "quoteExactInputSingle"
    [] leg.proto = "W" -> "quotePotentialSwap"

\* The contract method a leg calls; a V3 leg calls the single-pool form
\* first and the encoded-path form after that one failed.
MethodOf(leg, form) ==
  CASE leg.proto = "V2" -> "getAmountsOut"
    [] leg.proto = "V3" -> IF form = "primary" THEN "quoteExactInputSingle" ELSE "quoteExactInput"
    [] leg.proto = "W" -> "quotePotentialSwap"

\* return { ok: true, ... }
EvalOk(route, sizeIn, out) ==
  [ok |-> TRUE, routeType |-> RouteTypeOf(route), legs |-> LegsText(route),
   in |-> sizeIn, out |-> out]

\* A catch that reports a fixed text instead of the caught error's message.
EvalCatchGeneric(route, message) ==
  [ok |-> FALSE, error |-> <<"f", "a", "i", "l", "e", "d">>, routeType |-> RouteTypeOf(route)]

\* catch (e) { return { ok: false, error: e.message, routeType } }
EvalCatch(route, message) ==
  [ok |-> FALSE, error |-> message, routeType |-> RouteTypeOf(route)]

NoOutcome == [ok |-> FALSE, error |-> <<>>, routeType |-> ""]

NoError == [reason |-> <<>>, message |-> <<>>]

\* ------------------------------------------------------------ scoring and rows

\* A scoring that nets the gas cost only.
ScoreGasOnly(res, sz, sizeIn, gasPrice, c) ==
  LET gasUnits == estimateGasUnitsForRoute(res.routeType, c)
      gasWBNB == gasCostInWBNB(gasPrice, gasUnits)
      flashFee == flashloanFeeInWBNB(sizeIn, c)
      pnl == res.out.v - res.in
      net == pnl - gasWBNB
      bps == safePctBps(pnl, res.in)
  IN [routeType |-> res.routeType, size |-> sz, legs |-> res.legs, in |-> res.in,
      out |-> res.out.v, pnl |-> pnl, bps |-> bps, gasWBNB |-> gasWBNB,
      flashFee |-> flashFee, netPnl |-> net, note |-> <<>>]

\* The entry main() pushes into batchResults for a successful outcome whose
\* output is a bigint.
Score(res, sz, sizeIn, gasPrice, c) ==
  LET gasUnits == estimateGasUnitsForRoute(res.routeType, c)
      gasWBNB == gasCostInWBNB(gasPrice, gasUnits)
      flashFee == flashloanFeeInWBNB(sizeIn, c)
      pnl == res.out.v - res.in
      net == pnl - gasWBNB - flashFee
      bps == safePctBps(pnl, res.in)
  IN [routeType |-> res.routeType, size |-> sz, legs |-> res.legs, in |-> res.in,
      out |-> res.out.v, pnl |-> pnl, bps |-> bps, gasWBNB |-> gasWBNB,
      flashFee |-> flashFee, netPnl |-> net, note |-> <<>>]

\* The row persisted for a scored entry.
SuccessRow(e) ==
  [timestamp |-> nowIso, routeType |-> <<e.routeType>>, size |-> e.size, legs |-> <<e.legs>>,
   in |-> ToStr(e.in), out |-> ToStr(e.out), pnl |-> ToStr(e.pnl), bps |-> ToStr(e.bps),
   gasCostWBNB |-> ToStr(e.gasWBNB), flashFeeWBNB |-> ToStr(e.flashFee),
   netPnl |-> ToStr(e.netPnl), note |-> <<>>]

\* "ERR 1one:" after evalCrossVersion, "ERR 2two:" after evalTriangleV2,
\* "ERR 3three:" after evalTriangleWombat.
NotePrefix(route) ==
  CASE route \in {1, 2} -> <<"E", "R", "R", " ", "1", "o", "n", "e", ":">>
    [] route = 3 -> <<"E", "R", "R", " ", "2", "t", "w", "o", ":">>
    [] route \in {4, 5} -> <<"E", "R", "R", " ", "3", "t", "h", "r", "e", "e", ":">>

\* A note that cuts the message and leaves its separators in.
FailureNoteUnescaped(route, error) == NotePrefix(route) \o Slice0(error, NoteCap)

FailureNote(route, error) == NotePrefix(route) \o Slice0(ReplaceAll(error, ",", ";"), NoteCap)

\* The row persisted for a failed outcome.
FailureRow(route, res, sz) ==
  [timestamp |-> nowIso, routeType |-> <<res.routeType>>, size |-> sz, legs |-> <<>>,
   in |-> <<"0">>, out |-> <<"0">>, pnl |-> <<"0">>, bps |-> <<"0">>,
   gasCostWBNB |-> <<"0">>, flashFeeWBNB |-> <<"0">>, netPnl |-> <<"0">>,
   note |-> FailureNote(route, res.error)]

\* headers.map(h => row[h]).join(",")
RowLine(headers, row) == JoinComma([i \in 1..Len(headers) |-> row[headers[i]]])

\* headers.join(",")
HeaderLine(headers) == JoinComma([i \in 1..Len(headers) |-> <<headers[i]>>])

\* What the file system does to one appendCsvRow on a disk with room for
\* `room` lines of the file: "ok", "failHeader" (the header append throws)
\* or "failLine" (the row append throws).
FsOutcome(file, room) ==
  LET n == Len(file.lines)
  IN IF ~file.exists
     THEN IF n + 1 > room THEN "failHeader" ELSE IF n + 2 > room THEN "failLine" ELSE "ok"
     ELSE IF n + 1 > room THEN "failLine" ELSE "ok"

\* An append that writes the row only to a file that existed already.
appendCsvRowElse(file, headers, row, fs) ==
  IF ~file.exists
  THEN IF fs = "failHeader" THEN file
       ELSE [exists |-> TRUE, lines |-> Append(file.lines, HeaderLine(headers))]
  ELSE IF fs = "ok"
       THEN [exists |-> TRUE, lines |-> Append(file.lines, RowLine(headers, row))]
       ELSE file

\* appendCsvRow: what the file holds afterwards.
appendCsvRow(file, headers, row, fs) ==
  LET withHeader == IF ~file.exists /\ fs # "failHeader"
                    THEN [exists |-> TRUE, lines |-> Append(file.lines, HeaderLine(headers))]
                    ELSE file
  IN IF fs = "ok"
     THEN [exists |-> TRUE, lines |-> Append(withHeader.lines, RowLine(headers, row))]
     ELSE withHeader

\* ------------------------------------------------------------ ranking

\* The comparator of the sort: negative when a goes first.
ComparePnl(a, b) == IF a.pnl > b.pnl THEN -1 ELSE IF a.pnl < b.pnl THEN 1 ELSE 0

\* x placed in front of the entries it ties with.
InsertSortedBeforeTies(sorted, x) ==
  LET k == Cardinality({i \in 1..Len(sorted) : ComparePnl(sorted[i], x) < 0})
  IN SubSeq(sorted, 1, k) \o <<x>> \o SubSeq(sorted, k + 1, Len(sorted))

\* x placed into a sorted sequence behind every entry that does not compare
\* after it (Array.prototype.sort is stable).
InsertSorted(sorted, x) ==
  LET k == Cardinality({i \in 1..Len(sorted) : ComparePnl(sorted[i], x) <= 0})
  IN SubSeq(sorted, 1, k) \o <<x>> \o SubSeq(sorted, k + 1, Len(sorted))

RECURSIVE SortByPnl(_)
SortByPnl(s) ==
  IF s = <<>> THEN <<>>
  ELSE CHOOSE out \in {InsertSorted(sorted, s[Len(s)]) :
                         sorted \in {SortByPnl(SubSeq(s, 1, Len(s) - 1))}} : TRUE

\* batchResults.filter(...).sort(...).slice(0, 10); every entry of the batch
\* carries a bigint pnl, so the filter keeps them all.
Ranked(batch) == SubSeq(SortByPnl(batch), 1, IF Len(batch) < TopN THEN Len(batch) ELSE TopN)

\* One line of the console table.
TableRow(e) ==
  [routeType |-> e.routeType, sizeWBNB |-> e.size,
   pnlWBNB |-> bnToFloatStr(BigIntV(e.pnl), DisplayDecimals, MaxDp), bps |-> e.bps,
   gasWBNB |-> bnToFloatStr(BigIntV(e.gasWBNB), DisplayDecimals, MaxDp),
   flashFeeWBNB |-> bnToFloatStr(BigIntV(e.flashFee), DisplayDecimals, MaxDp),
   netPnlWBNB |-> bnToFloatStr(BigIntV(e.netPnl), DisplayDecimals, MaxDp), legs |-> e.legs]

\* A report that prints the table whatever the batch holds.
ReportTableAlways(rk) ==
  [kind |-> "Top 10 (by raw PnL):", table |-> [i \in 1..Len(rk) |-> TableRow(rk[i])]]

\* The console output of the report step: the table of the ranked entries,
\* or the message when there is none.
Report(rk) ==
  IF Len(rk) > 0
  THEN [kind |-> "Top 10 (by raw PnL):", table |-> [i \in 1..Len(rk) |-> TableRow(rk[i])]]
  ELSE [kind |-> "No successful quotes in this cycle.", table |-> <<>>]

\* ------------------------------------------------------------ state

VARIABLES
  pc,            \* where main() is: "start", "loop", "eval", "await", "persist",
                 \* "rank", "sleep", "exit"
  cfg,           \* the configuration loaded at startup
  env,           \* what the chain answers during the run
  gasPriceWei,   \* the gas price snapshot taken at startup
  cycle,         \* polling cycles started so far
  si,            \* index of the size being evaluated
  ri,            \* the route being evaluated for that size
  ev,            \* the running evaluator: leg, amountIn, V3 call form, e1
  pending,       \* the quote call awaited, when pc = "await"
  calls,         \* the quote calls issued by the running route evaluation, each
                 \* with its result ("pending", "ok", "failed") and value
  attempts,      \* the evaluations finished in the cycle: size index, route, ok
  inflight,      \* quote calls issued and not yet settled
  ncalls,        \* quote calls issued in the run
  lastErr,       \* the last error an adapter threw: its leg and message
  r,             \* the outcome the evaluator returned
  batchResults,  \* the batch of the cycle
  file,          \* probe_ops.csv: whether it exists, and its lines
  fileAtStart,   \* probe_ops.csv as the process found it
  cycleStartLen, \* lines of the file when the cycle started
  ranked,        \* the ranked list of the last report step
  console,       \* what the last report step printed
  nreports,      \* report steps done
  nsleeps,       \* poll delays elapsed
  exitCode,      \* 0 while running, 1 after process.exit(1)
  disk,          \* lines the disk has room for in the file
  hin,           \* the arguments of a function applied on its own
  hout           \* and its result

vars == <<pc, cfg, env, gasPriceWei, cycle, si, ri, ev, pending, calls, attempts, inflight,
          ncalls, lastErr, r, batchResults, file, cycleStartLen, ranked, console, nreports,
          nsleeps, exitCode, disk, hin, hout, fileAtStart>>

\* What no step of a run changes.
fixed == <<cfg, env, disk, hin, hout, fileAtStart>>

\* The lines the disk may have room for.
DiskRooms == {0, 1, 4, 1000}

\* The file a run may find: missing, empty, or holding an earlier run's lines.
FileStates ==
  { [exists |-> FALSE, lines |-> <<>>],
    [exists |-> TRUE, lines |-> <<>>],
    [exists |-> TRUE,
     lines |-> <<HeaderLine(CSV_HEADERS),
                 RowLine(CSV_HEADERS, FailureRow(3, EvalCatch(3, <<"o", "l", "d">>), <<"1">>))>>] }

NoCall == [method |-> "", path |-> <<>>, amountIn |-> NullV, fee |-> 0]

NoReport == [kind |-> "", table |-> <<>>]

\* ethers.parseUnits(sz, tokens.WBNB.dec) of the size at index i.
SizeIn(c, i) == ParseUnits(sizesWBNB(c)[i], c.tokens.WBNB.decimals)

\* The evaluator as it starts on a route of the size at index i.
EvalStart(c, i) ==
  [leg |-> 1, amt |-> BigIntV(SizeIn(c, i)), form |-> "primary", e1 |-> NoError]

\* The state main() starts from, but for pc, cfg, env, file, disk and the
\* arguments of a function applied on its own.
Fresh ==
  /\ gasPriceWei = 0
  /\ cycle = 0
  /\ si = 1
  /\ ri = 1
  /\ ev = EvalStart(cfg, 1)
  /\ pending = NoCall
  /\ calls = <<>>
  /\ attempts = <<>>
  /\ inflight = 0
  /\ ncalls = 0
  /\ lastErr = [leg |-> 0, message |-> <<>>]
  /\ r = NoOutcome
  /\ batchResults = <<>>
  /\ cycleStartLen = 0
  /\ ranked = <<>>
  /\ console = NoReport
  /\ nreports = 0
  /\ nsleeps = 0
  /\ exitCode = 0
  /\ hout = <<>>

Init ==
  /\ pc = "start"
  /\ cfg \in Configs
  /\ env \in Envs
  /\ file \in FileStates
  /\ fileAtStart = file
  /\ disk \in DiskRooms
  /\ hin = <<>>
  /\ Fresh

\* A top level that logs the error and lets the loop go on.
FatalLogOnly ==
  /\ pc' = "loop"
  /\ exitCode' = exitCode

\* main().catch: log and process.exit(1).
Fatal ==
  /\ pc' = "exit"
  /\ exitCode' = 1

\* ------------------------------------------------------------ startup

\* provider.getFeeData() resolves: with a gas price, or with none and the
\* configured default is taken.
FetchFeeData ==
  /\ pc = "start"
  /\ gasPriceWei' = IF env.gasPrice # 0 THEN env.gasPrice ELSE DefaultGasPrice(cfg)
  /\ pc' = "loop"
  /\ UNCHANGED <<fixed, cycle, si, ri, ev, pending, calls, attempts, inflight, ncalls, lastErr, r,
                 batchResults, file, cycleStartLen, ranked, console, nreports, nsleeps,
                 exitCode>>

\* provider.getFeeData() rejects: nothing catches it before main().catch.
FetchFeeDataFails ==
  /\ pc = "start"
  /\ Fatal
  /\ UNCHANGED <<fixed, gasPriceWei, cycle, si, ri, ev, pending, calls, attempts, inflight,
                 ncalls,
                 lastErr, r, batchResults, file, cycleStartLen, ranked, console, nreports,
                 nsleeps>>

\* ------------------------------------------------------------ the cycle

\* A loop whose batch outlives the cycle.
CycleStartKeepsBatch ==
  /\ pc = "loop"
  /\ cycle' = cycle + 1
  /\ si' = 1
  /\ ri' = 1
  /\ ev' = EvalStart(cfg, 1)
  /\ calls' = <<>>
  /\ attempts' = <<>>
  /\ cycleStartLen' = Len(file.lines)
  /\ pc' = "eval"
  /\ UNCHANGED <<fixed, gasPriceWei, pending, inflight, ncalls, lastErr, r, file, ranked,
                 console, nreports, nsleeps, exitCode, batchResults>>

\* while (true) { const batchResults = []; for (const sz of sizesWBNB) ...
CycleStart ==
  /\ pc = "loop"
  /\ cycle' = cycle + 1
  /\ batchResults' = <<>>
  /\ si' = 1
  /\ ri' = 1
  /\ ev' = EvalStart(cfg, 1)
  /\ calls' = <<>>
  /\ attempts' = <<>>
  /\ cycleStartLen' = Len(file.lines)
  /\ pc' = "eval"
  /\ UNCHANGED <<fixed, gasPriceWei, pending, inflight, ncalls, lastErr, r, file, ranked,
                 console, nreports, nsleeps, exitCode>>

\* An evaluator that issues the quote call and goes on without awaiting it.
CallQuoteNotAwaited ==
  /\ pc = "eval"
  /\ ncalls < MaxCalls
  /\ LET leg == Legs(ri, cfg)[ev.leg]
         call == [method |-> MethodOf(leg, ev.form), path |-> leg.path,
                  amountIn |-> ev.amt, fee |-> leg.fee]
     IN /\ pending' = call
        /\ calls' = Append(calls, [leg |-> ev.leg, call |-> call, result |-> "pending",
                                   value |-> NullV])
  /\ inflight' = inflight + 1
  /\ ncalls' = ncalls + 1
  /\ pc' \in {"eval", "await"}
  /\ UNCHANGED <<fixed, gasPriceWei, cycle, si, ri, ev, attempts, lastErr, r, batchResults, file,
                 cycleStartLen, ranked, console, nreports, nsleeps, exitCode>>

\* The evaluator issues the quote call of its current leg and awaits it.
CallQuote ==
  /\ pc = "eval"
  /\ ncalls < MaxCalls
  /\ LET leg == Legs(ri, cfg)[ev.leg]
         call == [method |-> MethodOf(leg, ev.form), path |-> leg.path,
                  amountIn |-> ev.amt, fee |-> leg.fee]
     IN /\ pending' = call
        /\ calls' = Append(calls, [leg |-> ev.leg, call |-> call, result |-> "pending",
                                   value |-> NullV])
  /\ inflight' = inflight + 1
  /\ ncalls' = ncalls + 1
  /\ pc' = "await"
  /\ UNCHANGED <<fixed, gasPriceWei, cycle, si, ri, ev, attempts, lastErr, r, batchResults, file,
                 cycleStartLen, ranked, console, nreports, nsleeps, exitCode>>

\* What the adapter returns for a call that resolved.
AdapterValues(call) ==
  CASE call.method = "getAmountsOut" ->
         {quoteV2Result(V2Amounts(env, call.amountIn.v, call.path))}
    [] call.method \in {"quoteExactInputSingle", "quoteExactInput"} ->
         {quoteV3Normalise(out) : out \in V3Shapes(env, call.amountIn.v)}
    [] call.method = "quotePotentialSwap" ->
         {quoteWombatResult(WombatResult(env, call.amountIn.v))}

\* The evaluator after a leg returned v: the next leg with v as its input,
\* or the successful outcome when that was the last leg.
EvalContinue(v) ==
  IF ev.leg < Len(Legs(ri, cfg))
  THEN /\ ev' = [leg |-> ev.leg + 1, amt |-> v, form |-> "primary", e1 |-> NoError]
       /\ pc' = "eval"
       /\ r' = r
       /\ attempts' = attempts
  ELSE /\ r' = EvalOk(ri, SizeIn(cfg, si), v)
       /\ pc' = "persist"
       /\ ev' = ev
       /\ attempts' = Append(attempts, [si |-> si, ri |-> ri, ok |-> TRUE])

\* The awaited call resolves (ethers sends nothing for an amount that is no
\* bigint: that call can only fail).
QuoteReturns ==
  /\ pc = "await"
  /\ IsBigInt(pending.amountIn)
  /\ \E v \in AdapterValues(pending) :
       /\ EvalContinue(v)
       /\ calls' = [calls EXCEPT ![Len(calls)].result = "ok", ![Len(calls)].value = v]
  /\ inflight' = inflight - 1
  /\ pending' = NoCall
  /\ UNCHANGED <<fixed, gasPriceWei, cycle, si, ri, ncalls, lastErr, batchResults,
                 file, cycleStartLen, ranked, console, nreports, nsleeps, exitCode>>

\* The error the awaited call rejects with.
CallError(call) ==
  IF IsBigInt(call.amountIn) THEN env.err[call.method] ELSE InvalidArgument

\* The evaluator's catch: the outcome is the failure carrying the message.
EvalFail(message) ==
  /\ lastErr' = [leg |-> ev.leg, message |-> message]
  /\ r' = EvalCatch(ri, message)
  /\ pc' = "persist"
  /\ ev' = ev
  /\ attempts' = Append(attempts, [si |-> si, ri |-> ri, ok |-> FALSE])

\* The awaited call rejects.  The single-pool V3 form is retried with the
\* encoded-path form; any other failure is wrapped and thrown to the evaluator.
QuoteFails ==
  /\ pc = "await"
  /\ LET e == CallError(pending)
     IN CASE pending.method = "getAmountsOut" -> EvalFail(quoteV2Error(e))
          [] pending.method = "quoteExactInputSingle" ->
               /\ ev' = [ev EXCEPT !.form = "fallback", !.e1 = e]
               /\ pc' = "eval"
               /\ UNCHANGED <<lastErr, r, attempts>>
          [] pending.method = "quoteExactInput" -> EvalFail(quoteV3Error(e, ev.e1))
          [] pending.method = "quotePotentialSwap" -> EvalFail(quoteWombatError(e))
  /\ calls' = [calls EXCEPT ![Len(calls)].result = "failed"]
  /\ inflight' = inflight - 1
  /\ pending' = NoCall
  /\ UNCHANGED <<fixed, gasPriceWei, cycle, si, ri, ncalls, batchResults, file,
                 cycleStartLen, ranked, console, nreports, nsleeps, exitCode>>

\* A loop that leaves the sizes and routes behind after a failed outcome.
AdvanceBreakOnFailure ==
  IF r.ok /\ (ri < 5 \/ si < Len(sizesWBNB(cfg)))
  THEN /\ ri' = (IF ri < 5 THEN ri + 1 ELSE 1)
       /\ si' = (IF ri < 5 THEN si ELSE si + 1)
       /\ ev' = EvalStart(cfg, IF ri < 5 THEN si ELSE si + 1)
       /\ pc' = "eval"
  ELSE /\ UNCHANGED <<ri, si, ev>>
       /\ pc' = "rank"

\* A loop that evaluates a route again after it failed.
AdvanceRetryOnFailure ==
  IF ~r.ok
  THEN /\ UNCHANGED <<ri, si>>
       /\ ev' = EvalStart(cfg, si)
       /\ pc' = "eval"
  ELSE IF ri < 5
  THEN /\ ri' = ri + 1
       /\ si' = si
       /\ ev' = EvalStart(cfg, si)
       /\ pc' = "eval"
  ELSE IF si < Len(sizesWBNB(cfg))
  THEN /\ ri' = 1
       /\ si' = si + 1
       /\ ev' = EvalStart(cfg, si + 1)
       /\ pc' = "eval"
  ELSE /\ UNCHANGED <<ri, si, ev>>
       /\ pc' = "rank"

\* After the row of (si, ri): the next route of the size, the first route of
\* the next size, or the ranking step.
Advance ==
  IF ri < 5
  THEN /\ ri' = ri + 1
       /\ si' = si
       /\ ev' = EvalStart(cfg, si)
       /\ pc' = "eval"
  ELSE IF si < Len(sizesWBNB(cfg))
  THEN /\ ri' = 1
       /\ si' = si + 1
       /\ ev' = EvalStart(cfg, si + 1)
       /\ pc' = "eval"
  ELSE /\ UNCHANGED <<ri, si, ev>>
       /\ pc' = "rank"

\* A loop that goes on to the next evaluation with the row still unwritten.
PersistRowDeferred(row) ==
  /\ file' = file
  /\ Advance
  /\ calls' = <<>>
  /\ exitCode' = exitCode

\* appendCsvRow(row), then on to the next evaluation; a throwing append
\* ends the process.
PersistRow(row) ==
  LET fs == FsOutcome(file, disk)
  IN /\ file' = appendCsvRow(file, CSV_HEADERS, row, fs)
     /\ IF fs = "ok"
        THEN /\ Advance
             /\ calls' = <<>>
             /\ exitCode' = exitCode
        ELSE /\ Fatal
             /\ UNCHANGED <<ri, si, ev, calls>>

\* if (r.ok) { score; batchResults.push; appendCsvRow } else { appendCsvRow }
\* The subtraction r.out - r.in throws a TypeError when r.out is no bigint.
\* (The entry and the row are each computed once: \E over a one-element set.)
Persist ==
  /\ pc = "persist"
  /\ IF r.ok
     THEN IF IsBigInt(r.out)
          THEN \E sizeIn \in {SizeIn(cfg, si)} :
               \E e \in {Score(r, sizesWBNB(cfg)[si], sizeIn, gasPriceWei, cfg)} :
                 /\ batchResults' = Append(batchResults, e)
                 /\ \E row \in {SuccessRow(e)} : PersistRow(row)
          ELSE /\ Fatal
               /\ UNCHANGED <<batchResults, file, ri, si, ev, calls>>
     ELSE /\ \E row \in {FailureRow(ri, r, sizesWBNB(cfg)[si])} : PersistRow(row)
          /\ batchResults' = batchResults
  /\ UNCHANGED <<fixed, gasPriceWei, cycle, pending, attempts, inflight, ncalls, lastErr, r,
                 cycleStartLen, ranked, console, nreports, nsleeps>>

\* Rank by raw P&L and print the table, or the no-quotes message.
RankReport ==
  /\ pc = "rank"
  /\ \E rk \in {Ranked(batchResults)} :
       /\ ranked' = rk
       /\ console' = Report(rk)
  /\ nreports' = nreports + 1
  /\ pc' = "sleep"
  /\ UNCHANGED <<fixed, gasPriceWei, cycle, si, ri, ev, pending, calls, attempts, inflight,
                 ncalls,
                 lastErr, r, batchResults, file, cycleStartLen, nsleeps, exitCode>>

\* A loop that repeats while the delay is still running.
SleepNotAwaited ==
  /\ pc = "sleep"
  /\ pc' = "loop"
  /\ UNCHANGED <<fixed, gasPriceWei, cycle, si, ri, ev, pending, calls, attempts, inflight,
                 ncalls, lastErr, r, batchResults, file, cycleStartLen, ranked, console,
                 nreports, nsleeps, exitCode>>

\* await sleep(pollMs): the delay elapses and the loop repeats.
Sleep ==
  /\ pc = "sleep"
  /\ nsleeps' = nsleeps + 1
  /\ pc' = "loop"
  /\ UNCHANGED <<fixed, gasPriceWei, cycle, si, ri, ev, pending, calls, attempts, inflight,
                 ncalls,
                 lastErr, r, batchResults, file, cycleStartLen, ranked, console, nreports,
                 exitCode>>

Next ==
  \/ FetchFeeData
  \/ FetchFeeDataFails
  \/ CycleStart
  \/ CallQuote
  \/ QuoteReturns
  \/ QuoteFails
  \/ Persist
  \/ RankReport
  \/ Sleep

Spec == Init /\ [][Next]_vars

\* ------------------------------------------------------------ ranking alone

\* The report step of main() on batches of up to MaxBatch entries: the entries
\* are scored from successful outcomes of input 1000 with one of two outputs,
\* each under a size text of its own.
InitRank ==
  /\ pc = "build"
  /\ cfg \in Configs
  /\ env = CHOOSE e \in Envs : e.gasPrice # 0
  /\ file = [exists |-> FALSE, lines |-> <<>>]
  /\ fileAtStart = file
  /\ disk = 0
  /\ hin = <<>>
  /\ Fresh

\* batchResults.push of one more scored entry.
PushScored ==
  /\ pc = "build"
  /\ Len(batchResults) < MaxBatch
  /\ \E out \in {990, 1040} :
       batchResults' = Append(batchResults,
                              Score(EvalOk(3, 1000, BigIntV(out)),
                                    NatStr(Len(batchResults) + 1), 1000, gasPriceWei, cfg))
  /\ UNCHANGED <<fixed, pc, gasPriceWei, cycle, si, ri, ev, pending, calls, attempts,
                 inflight, ncalls, lastErr, r, file, cycleStartLen, ranked, console,
                 nreports, nsleeps, exitCode>>

\* The batch is complete: on to the report step.
StartRank ==
  /\ pc = "build"
  /\ pc' = "rank"
  /\ UNCHANGED <<fixed, gasPriceWei, cycle, si, ri, ev, pending, calls, attempts, inflight,
                 ncalls, lastErr, r, batchResults, file, cycleStartLen, ranked, console,
                 nreports, nsleeps, exitCode>>

NextRank ==
  \/ PushScored
  \/ StartRank
  \/ RankReport

SpecRank == InitRank /\ [][NextRank]_vars

\* ------------------------------------------------------------ safePctBps alone

InitBps ==
  /\ pc = "pure"
  /\ cfg \in Configs
  /\ env = CHOOSE e \in Envs : e.gasPrice # 0
  /\ file = [exists |-> FALSE, lines |-> <<>>]
  /\ fileAtStart = file
  /\ disk = 0
  /\ hin \in [pnl : (-MaxPnl)..MaxPnl, input : 0..MaxInput]
  /\ Fresh

ApplySafePctBps ==
  /\ pc = "pure"
  /\ hout' = <<safePctBps(hin.pnl, hin.input)>>
  /\ pc' = "done"
  /\ UNCHANGED <<cfg, env, disk, hin, fileAtStart, gasPriceWei, cycle, si, ri, ev, pending, calls, attempts,
                 inflight, ncalls, lastErr, r, batchResults, file, cycleStartLen, ranked,
                 console, nreports, nsleeps, exitCode>>

NextBps == ApplySafePctBps

SpecBps == InitBps /\ [][NextBps]_vars

\* ------------------------------------------------------------ the running loop

\* A configuration of one trade size: a whole cycle, whatever fails, takes
\* at most 13 quote calls.
LiveConfigs ==
  { [c EXCEPT !.sizesWBNB = <<c.sizesWBNB[1]>>] : c \in Configs }

\* main() on a disk with room, the file missing.
InitLive ==
  /\ pc = "start"
  /\ cfg \in LiveConfigs
  /\ env \in Envs
  /\ file = [exists |-> FALSE, lines |-> <<>>]
  /\ fileAtStart = file
  /\ disk = 1000
  /\ hin = <<>>
  /\ Fresh

\* The process runs: the step it stands at is taken; an awaited quote call
\* settles, the delay elapses.
SpecLive == InitLive /\ [][Next]_vars /\ WF_vars(Next)

\* ------------------------------------------------------------ rows alone

\* An error message of n characters with a separator at every k-th place
\* (k = 0: none).
Message(n, k) == [i \in 1..n |-> IF k > 0 /\ i % k = 0 THEN "," ELSE "x"]

\* The outcomes persisted on their own: failures of each route with a
\* message of up to MaxMsgLen characters, successes of each route.
RowInputs ==
  [kind : {"fail"}, route : Routes, n : 0..MaxMsgLen, k : 0..3]
    \cup [kind : {"ok"}, route : Routes, n : {0, 990, 1040}, k : {0}]

InitRow ==
  /\ pc = "pure"
  /\ cfg \in Configs
  /\ env = CHOOSE e \in Envs : e.gasPrice # 0
  /\ file = [exists |-> FALSE, lines |-> <<>>]
  /\ fileAtStart = file
  /\ disk = 0
  /\ hin \in RowInputs
  /\ Fresh

\* The row main() hands to appendCsvRow for the outcome, and the line
\* appendCsvRow makes of it.
ApplyRow ==
  /\ pc = "pure"
  /\ LET sz == sizesWBNB(cfg)[1]
         row == IF hin.kind = "fail"
                THEN FailureRow(hin.route, EvalCatch(hin.route, Message(hin.n, hin.k)), sz)
                ELSE SuccessRow(Score(EvalOk(hin.route, SizeIn(cfg, 1), BigIntV(hin.n)), sz,
                                      SizeIn(cfg, 1), DefaultGasPrice(cfg), cfg))
     IN hout' = <<row.note, RowLine(CSV_HEADERS, row)>>
  /\ pc' = "done"
  /\ UNCHANGED <<cfg, env, disk, hin, fileAtStart, gasPriceWei, cycle, si, ri, ev, pending,
                 calls, attempts, inflight, ncalls, lastErr, r, batchResults, file,
                 cycleStartLen, ranked, console, nreports, nsleeps, exitCode>>

NextRow == ApplyRow

SpecRow == InitRow /\ [][NextRow]_vars

\* ------------------------------------------------------------ gas estimate alone

\* Route types handed to the estimate: those the evaluators return, the
\* direction names of main()'s loop, and others no evaluator returns.
GasInputs ==
  [routeType : {RouteTypeOf(j) : j \in Routes} \cup {"V2->V3", "V3->V2", "TRI_V2", ""},
   gasEstimates : [v2Swap : 0..MaxGasEstimate, v3Swap : 0..MaxGasEstimate,
                   wombatSwap : 0..MaxGasEstimate]]

InitGas ==
  /\ pc = "pure"
  /\ cfg \in Configs
  /\ env = CHOOSE e \in Envs : e.gasPrice # 0
  /\ file = [exists |-> FALSE, lines |-> <<>>]
  /\ fileAtStart = file
  /\ disk = 0
  /\ hin \in GasInputs
  /\ Fresh

ApplyEstimateGas ==
  /\ pc = "pure"
  /\ hout' = <<estimateGasUnitsForRoute(hin.routeType,
                                        [cfg EXCEPT !.gasEstimates = hin.gasEstimates])>>
  /\ pc' = "done"
  /\ UNCHANGED <<cfg, env, disk, hin, fileAtStart, gasPriceWei, cycle, si, ri, ev, pending,
                 calls, attempts, inflight, ncalls, lastErr, r, batchResults, file,
                 cycleStartLen, ranked, console, nreports, nsleeps, exitCode>>

NextGas == ApplyEstimateGas

SpecGas == InitGas /\ [][NextGas]_vars

\* ------------------------------------------------------------ properties

HasPrefix(s, p) == Len(s) >= Len(p) /\ SubSeq(s, 1, Len(p)) = p

\* s holds t as a run of consecutive characters.
Contains(s, t) == \E i \in 0..(Len(s) - Len(t)) : SubSeq(s, i + 1, i + Len(t)) = t

\* The text an adapter's error starts with, by protocol.
AdapterPrefix(proto) ==
  CASE proto = "V2" -> V2Prefix
    [] proto = "V3" -> V3Prefix
    [] proto = "W" -> WombatPrefix

\* The route type each evaluation in main()'s order is tagged with.
ExpectedRouteType(route) ==
  <<"V2→V3", "V3→V2", "TRI", "TRI_WOMBAT_A", "TRI_WOMBAT_B">>[route]

\* A leg's quote call has failed: a V2 or Wombat call, or the second call
\* form of a V3 leg.
LegFailed(c) == c.result = "failed" /\ c.call.method # "quoteExactInputSingle"

\* C1: in evalCrossVersion (both directions) and evalTriangleWombat (A and
\* B), once the quote call of leg k has failed no quote call of a later leg
\* is issued, and the outcome returned is a failure tagged with the route's
\* type that carries exactly the error message of leg k's adapter.
C1_LegFailureShortCircuits ==
  ri \in {1, 2, 4, 5} =>
    /\ \A i \in 1..Len(calls) : LegFailed(calls[i]) => i = Len(calls)
    /\ (pc = "persist" /\ ~r.ok) =>
         /\ calls # <<>>
         /\ LegFailed(calls[Len(calls)])
         /\ lastErr.leg = calls[Len(calls)].leg
         /\ \A i \in 1..Len(calls) : calls[i].leg <= lastErr.leg
         /\ r.routeType = ExpectedRouteType(ri)
         /\ r.error = lastErr.message
         /\ HasPrefix(r.error, AdapterPrefix(Legs(ri, cfg)[lastErr.leg].proto))

\* The stable-swap leg of a triangle fails: its third leg is never quoted.
C1_Witness ==
  /\ pc = "persist"
  /\ ~r.ok
  /\ ri = 4
  /\ lastErr.leg = 2
  /\ Len(calls) = 2

\* The lines appended to the file since the cycle started, without a header
\* line.
CycleRows ==
  SelectSeq(SubSeq(file.lines, cycleStartLen + 1, Len(file.lines)),
            LAMBDA l : l # HeaderLine(CSV_HEADERS))

\* The fields of each row.
FieldsOf(rows) == [k \in 1..Len(rows) |-> SplitComma(rows[k])]

\* The rows, given by their fields, written for the size at index i and
\* route j.
RowsFor(fields, i, j) ==
  {k \in 1..Len(fields) :
     fields[k][2] = <<ExpectedRouteType(j)>> /\ fields[k][3] = sizesWBNB(cfg)[i]}

\* The evaluation of the cycle is over: main() is at or past the ranking.
CycleEvaluated == cycle >= 1 /\ pc \in {"rank", "sleep", "loop"}

\* C2: in every completed cycle, whatever succeeded or failed, each (size,
\* route) pair has exactly one data row among the rows appended during the
\* cycle, and these are (number of sizes) x 5 rows.
C2_OneRowPerSizeAndRoute ==
  CycleEvaluated =>
    LET fields == FieldsOf(CycleRows)
    IN /\ Len(fields) = Len(sizesWBNB(cfg)) * 5
       /\ \A i \in 1..Len(sizesWBNB(cfg)) : \A j \in Routes :
            Cardinality(RowsFor(fields, i, j)) = 1

\* A cycle with successes and failures reaches the ranking.
C2_Witness ==
  /\ pc = "rank"
  /\ \E a \in 1..Len(attempts) : attempts[a].ok
  /\ \E a \in 1..Len(attempts) : ~attempts[a].ok
  /\ Len(batchResults) >= 3

\* The integer a base-10 text stands for.
ParseInt(s) == IF s # <<>> /\ s[1] = "-" THEN -DigitsVal(Tail(s)) ELSE DigitsVal(s)

\* The last line of the file is a row this cycle wrote for a success (its
\* note is empty), and the process goes on.
SuccessRowWritten ==
  /\ cycle >= 1
  /\ pc # "exit"
  /\ Len(file.lines) > cycleStartLen
  /\ file.lines[Len(file.lines)] # HeaderLine(CSV_HEADERS)
  /\ file.lines[Len(file.lines)][Len(file.lines[Len(file.lines)])] = ","

\* The fields of the last line of the file.
LastRowFields == SplitComma(file.lines[Len(file.lines)])

\* Raw and net profit of a scored entry, and its costs.
ScoredExactly(e) ==
  /\ e.pnl = e.out - e.in
  /\ e.netPnl = e.pnl - e.gasWBNB - e.flashFee
  /\ e.gasWBNB = gasPriceWei * estimateGasUnitsForRoute(e.routeType, cfg)
  /\ e.flashFee * BpsDenom <= e.in * cfg.flashloanFeeBps
  /\ e.in * cfg.flashloanFeeBps < (e.flashFee + 1) * BpsDenom
  /\ (e.in = 1000 /\ e.out = 1040 /\ e.gasWBNB = 5 /\ e.flashFee = 1) =>
       (e.pnl = 40 /\ e.netPnl = 34)

\* The numbers of a persisted row are those of the entry e.
RowMatches(f, e) ==
  /\ ParseInt(f[5]) = e.in
  /\ ParseInt(f[6]) = e.out
  /\ ParseInt(f[7]) = e.pnl
  /\ ParseInt(f[9]) = e.gasWBNB
  /\ ParseInt(f[10]) = e.flashFee
  /\ ParseInt(f[11]) = e.netPnl
  /\ ParseInt(f[7]) = ParseInt(f[6]) - ParseInt(f[5])
  /\ ParseInt(f[11]) = ParseInt(f[7]) - ParseInt(f[9]) - ParseInt(f[10])

\* C3: for every successful outcome, in the batch entry and in the persisted
\* row, raw profit = output - input and net profit = raw profit - gas cost -
\* flash fee exactly, with gas cost = gas price x gasUnits(routeType) and
\* flash fee = input x flashloanFeeBps / 10000 truncated; input 1000, output
\* 1040, gas cost 5 and flash fee 1 give raw profit 40 and net profit 34.
\* (The file only grows, by one row per step, so every row is the last line
\* in the state after it was written: the row is checked there against the
\* entry pushed with it.)
C3_ProfitExact ==
  /\ \A k \in 1..Len(batchResults) : ScoredExactly(batchResults[k])
  /\ SuccessRowWritten =>
       /\ batchResults # <<>>
       /\ RowMatches(LastRowFields, batchResults[Len(batchResults)])

\* The scenario of the specification is scored and persisted.
C3_Witness ==
  /\ pc # "exit"
  /\ \E k \in 1..Len(batchResults) :
       /\ batchResults[k].in = 1000
       /\ batchResults[k].out = 1040
       /\ batchResults[k].gasWBNB = 5
       /\ batchResults[k].flashFee = 1
       /\ batchResults[k].netPnl = 34
       /\ k = Len(batchResults)
  /\ SuccessRowWritten
  /\ ParseInt(LastRowFields[11]) = 34

Abs(n) == IF n < 0 THEN -n ELSE n

\* C4: safePctBps(pnl, input) is 0 whenever input is 0; for input > 0 it is
\* pnl x 10000 / input cut toward zero, so its sign never differs from the
\* sign of pnl.
C4_BpsTruncatesTowardZero ==
  pc = "done" =>
    LET out == hout[1]
    IN /\ hin.input = 0 => out = 0
       /\ hin.input > 0 =>
            /\ Abs(out) * hin.input <= Abs(hin.pnl) * 10000
            /\ Abs(hin.pnl) * 10000 < (Abs(out) + 1) * hin.input
            /\ hin.pnl >= 0 => out >= 0
            /\ hin.pnl <= 0 => out <= 0

\* A loss that does not divide evenly: -1 of 3 is -3333 bps, not -3334.
C4_Witness ==
  /\ pc = "done"
  /\ hin.pnl = -1
  /\ hin.input = 3
  /\ hout = <<-3333>>

\* Where an entry of the batch sits in it.
PosIn(batch, e) == CHOOSE i \in 1..Len(batch) : batch[i] = e

\* C5: the ranked list of the report step is ordered by raw profit
\* descending, entries of equal raw profit keep the order in which they were
\* pushed into the batch, it holds min(10, batch size) entries, and no entry
\* left out has a raw profit above that of an entry kept.
C5_RankedTopTen ==
  pc = "sleep" =>
    /\ Len(ranked) = (IF Len(batchResults) < 10 THEN Len(batchResults) ELSE 10)
    /\ \A i \in 1..Len(ranked) : \E k \in 1..Len(batchResults) : batchResults[k] = ranked[i]
    /\ \A i \in 1..Len(ranked) : \A j \in (i + 1)..Len(ranked) :
         /\ ranked[i].pnl >= ranked[j].pnl
         /\ ranked[i].pnl = ranked[j].pnl =>
              PosIn(batchResults, ranked[i]) < PosIn(batchResults, ranked[j])
    /\ \A k \in 1..Len(batchResults) :
         (\A i \in 1..Len(ranked) : ranked[i] # batchResults[k]) =>
           \A i \in 1..Len(ranked) : batchResults[k].pnl <= ranked[i].pnl

\* Eleven entries with ties among them: ten are kept, and the one left out
\* is not the last one pushed.
C5_Witness ==
  /\ pc = "sleep"
  /\ Len(batchResults) = 11
  /\ Len(ranked) = 10
  /\ ranked[1].pnl = ranked[2].pnl
  /\ ranked[9].pnl > ranked[10].pnl
  /\ \E i \in 1..Len(ranked) : ranked[i] = batchResults[11]

\* C6: in quoteV3Single the encoded-path call (quoteExactInput) is issued if
\* and only if the single-pool call (quoteExactInputSingle) failed; when the
\* encoded-path call then succeeds with output v, the adapter returns v, the
\* evaluator goes on with v as the output of that leg, and a route whose
\* last leg succeeded is reported as a success, with no error in its outcome.
C6_FallbackAfterPrimaryFailure ==
  /\ \A i \in 1..Len(calls) :
       calls[i].call.method = "quoteExactInput" =>
         /\ i > 1
         /\ calls[i - 1].call.method = "quoteExactInputSingle"
         /\ calls[i - 1].result = "failed"
         /\ calls[i - 1].leg = calls[i].leg
         /\ calls[i - 1].call.path = calls[i].call.path
         /\ calls[i - 1].call.fee = calls[i].call.fee
         /\ calls[i - 1].call.amountIn = calls[i].call.amountIn
  /\ \A i \in 1..Len(calls) :
       (calls[i].call.method = "quoteExactInputSingle" /\ calls[i].result = "failed") =>
         IF i < Len(calls)
         THEN calls[i + 1].call.method = "quoteExactInput"
         ELSE pc = "eval" /\ ev.form = "fallback" /\ ev.leg = calls[i].leg
  /\ \A i \in 1..Len(calls) :
       (calls[i].call.method = "quoteExactInput" /\ calls[i].result = "ok") =>
         /\ calls[i].value \in {BigIntV(Moved(calls[i].call.amountIn.v, env.delta.V3)), NullV}
         /\ IF i < Len(calls)
            THEN calls[i + 1].leg = calls[i].leg + 1
                 /\ calls[i + 1].call.amountIn = calls[i].value
            ELSE IF pc = "eval"
            THEN ev.leg = calls[i].leg + 1 /\ ev.amt = calls[i].value
            ELSE pc \in {"persist", "exit"} /\ r.ok /\ r.out = calls[i].value
  /\ (pc = "persist" /\ calls # <<>> /\ calls[Len(calls)].result = "ok") =>
       /\ r.ok
       /\ "error" \notin DOMAIN r

\* The single-pool call of the V2->V3 route fails, the encoded-path call
\* answers 1040, and the route is a success with output 1040.
C6_Witness ==
  /\ pc = "persist"
  /\ ri = 1
  /\ Len(calls) = 3
  /\ calls[2].call.method = "quoteExactInputSingle"
  /\ calls[2].result = "failed"
  /\ calls[3].call.method = "quoteExactInput"
  /\ calls[3].result = "ok"
  /\ r.ok
  /\ r.out = BigIntV(1040)

\* Both call forms of the V3 leg of the running cross-version evaluation
\* have failed, and the evaluator has returned.
BothV3FormsFailed ==
  /\ pc = "persist"
  /\ ri \in {1, 2}
  /\ Len(calls) >= 2
  /\ calls[Len(calls)].call.method = "quoteExactInput"
  /\ calls[Len(calls)].result = "failed"
  /\ calls[Len(calls) - 1].call.method = "quoteExactInputSingle"
  /\ calls[Len(calls) - 1].result = "failed"

\* What an error object tells: its reason when it has one, else its message.
ErrorText(e) == IF e.reason = <<>> THEN e.message ELSE e.reason

AllAttemptsFailed ==
  /\ Len(attempts) = Len(sizesWBNB(cfg)) * 5
  /\ \A k \in 1..Len(attempts) : ~attempts[k].ok

\* C8: after the report of a cycle in which every route evaluation failed
\* for every size, the console shows the message "No successful quotes in
\* this cycle." and no table, nothing was scored, and the rows written in the
\* cycle are 5 x (number of sizes) failure rows (a note, no legs, zero
\* amounts) and no success row.
C8_AllFailedCycle ==
  (cycle >= 1 /\ pc = "sleep" /\ AllAttemptsFailed) =>
    /\ batchResults = <<>>
    /\ ranked = <<>>
    /\ console.kind = "No successful quotes in this cycle."
    /\ console.table = <<>>
    /\ LET fields == FieldsOf(CycleRows)
       IN /\ Len(fields) = 5 * Len(sizesWBNB(cfg))
          /\ \A k \in 1..Len(fields) :
               /\ HasPrefix(fields[k][12], <<"E", "R", "R", " ">>)
               /\ fields[k][4] = <<>>
               /\ fields[k][6] = <<"0">>
               /\ fields[k][7] = <<"0">>

\* The first cycle ends with ten failures and the message.
C8_Witness ==
  /\ cycle = 1
  /\ pc = "sleep"
  /\ AllAttemptsFailed
  /\ Len(attempts) = 10
  /\ console.kind = "No successful quotes in this cycle."
  /\ Len(CycleRows) = 10

\* The steps of main() around a failed evaluation.
C9_Step ==
  /\ (pc = "await" /\ pc' = "persist" /\ ~r'.ok) =>
       /\ si' = si
       /\ ri' = ri
       /\ cycle' = cycle
       /\ batchResults' = batchResults
       /\ file' = file
       /\ exitCode' = 0
       /\ attempts' = Append(attempts, [si |-> si, ri |-> ri, ok |-> FALSE])
  /\ (pc = "persist" /\ ~r.ok /\ FsOutcome(file, disk) = "ok") =>
       /\ cycle' = cycle
       /\ batchResults' = batchResults
       /\ Len(file'.lines) > Len(file.lines)
       /\ ri < 5 => (pc' = "eval" /\ ri' = ri + 1 /\ si' = si /\ ev'.leg = 1)
       /\ (ri = 5 /\ si < Len(sizesWBNB(cfg))) =>
            (pc' = "eval" /\ ri' = 1 /\ si' = si + 1 /\ ev'.leg = 1)
       /\ (ri = 5 /\ si = Len(sizesWBNB(cfg))) => pc' = "rank"
  /\ pc = "rank" => (pc' = "sleep" /\ nreports' = nreports + 1 /\ cycle' = cycle)
  /\ pc = "sleep" => (pc' = "loop" /\ cycle' = cycle)
  /\ pc = "loop" => (pc' = "eval" /\ cycle' = cycle + 1 /\ si' = 1 /\ ri' = 1)
  /\ (pc' = "exit" /\ pc # "exit") =>
       \/ pc = "start"
       \/ /\ pc = "persist"
          /\ FsOutcome(file, disk) # "ok" \/ (r.ok /\ ~IsBigInt(r.out))

\* C9: a failed quote ends the evaluation attempt it belongs to and nothing
\* else: the failed outcome is recorded for its (size, route), its row is
\* written, the evaluation of the next route or size follows, after the last
\* one the ranking and report, the sleep, and the start of the next cycle;
\* a completed cycle has attempted every (size, route) in order, and the
\* process ends only when fee data cannot be fetched, a row cannot be
\* written, or a successful outcome carries no amount.
C9_FailureAbortsOnlyItsAttempt ==
  /\ [](CycleEvaluated =>
          /\ Len(attempts) = Len(sizesWBNB(cfg)) * 5
          /\ \A k \in 1..Len(attempts) :
               /\ attempts[k].si = ((k - 1) \div 5) + 1
               /\ attempts[k].ri = ((k - 1) % 5) + 1)
  /\ [][C9_Step]_vars

\* A second cycle is evaluating after a first one that had failures.
C9_Witness ==
  /\ cycle = 2
  /\ pc = "await"
  /\ lastErr.leg # 0
  /\ nreports = 1
  /\ exitCode = 0

\* A new cycle begins from the top of the loop with nothing of the previous
\* one outstanding.
C10_Step ==
  cycle' # cycle =>
    /\ cycle' = cycle + 1
    /\ pc = "loop"
    /\ inflight = 0
    /\ pending = NoCall
    /\ cycle >= 1 =>
         /\ Len(attempts) = Len(sizesWBNB(cfg)) * 5
         /\ Len(CycleRows) = Len(sizesWBNB(cfg)) * 5
         /\ nreports = cycle
         /\ nsleeps = cycle

\* C10: cycles never overlap: while a cycle evaluates, persists or ranks,
\* every earlier cycle has reported and slept, at most one quote call is in
\* flight, and a cycle begins only when all evaluations of the previous one
\* were attempted, their rows written, its report printed and its sleep over.
C10_CyclesNeverOverlap ==
  /\ []((cycle >= 1 /\ pc \in {"eval", "await", "persist", "rank"}) =>
          (nreports = cycle - 1 /\ nsleeps = cycle - 1 /\ inflight \in {0, 1}))
  /\ [][C10_Step]_vars

\* The second cycle begins after the first has reported and slept.
C10_Witness ==
  /\ cycle = 2
  /\ pc = "eval"
  /\ attempts = <<>>
  /\ ncalls = MaxCalls - 1
  /\ nreports = 1
  /\ nsleeps = 1
  /\ inflight = 0

\* How many lines of the file are the header line.
HeaderCount(f) ==
  Cardinality({k \in 1..Len(f.lines) : f.lines[k] = HeaderLine(CSV_HEADERS)})

\* The run has written a data row.
RowWrittenInRun ==
  /\ Len(file.lines) > Len(fileAtStart.lines)
  /\ file.lines[Len(file.lines)] # HeaderLine(CSV_HEADERS)

\* C11: once the run has written a row, a file that was missing or empty
\* when the process started holds the header line exactly once, as its first
\* line, and a file that already held rows has got no header line from the
\* run.
C11_HeaderOnceIfEmptyAtStart ==
  RowWrittenInRun =>
    IF fileAtStart.lines = <<>>
    THEN file.lines[1] = HeaderLine(CSV_HEADERS) /\ HeaderCount(file) = 1
    ELSE HeaderCount(file) = HeaderCount(fileAtStart)

\* A file that existed and was empty holds rows and no header line.
C11_Witness ==
  /\ fileAtStart = [exists |-> TRUE, lines |-> <<>>]
  /\ Len(file.lines) >= 2
  /\ HeaderCount(file) = 0

\* C12: whatever the error message, the note of a failure row is the fixed
\* prefix of its route followed by at most 160 characters, holds no field
\* separator, and the line of every row, success or failure, splits on the
\* separator into exactly the 12 header fields, the note being the last.
C12_NoteKeepsRowFormat ==
  pc = "done" =>
    LET note == hout[1]
        fields == SplitComma(hout[2])
    IN /\ Len(fields) = Len(CSV_HEADERS)
       /\ Len(fields) = 12
       /\ fields[12] = note
       /\ fields[2] = <<ExpectedRouteType(hin.route)>>
       /\ hin.kind = "ok" => note = <<>>
       /\ hin.kind = "fail" =>
            /\ HasPrefix(note, NotePrefix(hin.route))
            /\ Len(note) <= Len(NotePrefix(hin.route)) + 160
            /\ Len(note) = Len(NotePrefix(hin.route)) + (IF hin.n < 160 THEN hin.n ELSE 160)
            /\ \A i \in 1..Len(note) : note[i] # ","

\* A message longer than the cap with a separator at every other place.
C12_Witness ==
  /\ pc = "done"
  /\ hin.kind = "fail"
  /\ hin.route = 4
  /\ hin.n = 163
  /\ hin.k = 2
  /\ Len(hout[1]) = 171
  /\ hout[1][13] = ";"

\* C13: the gas units of a route type are v2Swap + v3Swap for the two
\* cross-version types, 3 x v2Swap for the single-DEX triangle, 2 x v2Swap +
\* wombatSwap for the two stable-hop triangles and 2 x v2Swap for any other
\* type; the type each of the five evaluations returns is one of the named
\* cases.
C13_GasUnitsByRouteType ==
  pc = "done" =>
    LET g == hin.gasEstimates
        t == hin.routeType
        units == hout[1]
    IN /\ t \in {ExpectedRouteType(1), ExpectedRouteType(2)} => units = g.v2Swap + g.v3Swap
       /\ t = ExpectedRouteType(3) => units = 3 * g.v2Swap
       /\ t \in {ExpectedRouteType(4), ExpectedRouteType(5)} =>
            units = 2 * g.v2Swap + g.wombatSwap
       /\ t \notin {ExpectedRouteType(j) : j \in Routes} => units = 2 * g.v2Swap
       /\ \A j \in Routes : RouteTypeOf(j) = ExpectedRouteType(j)

\* The V3->V2 route type with estimates that tell the cases apart.
C13_Witness ==
  /\ pc = "done"
  /\ hin.routeType = RouteTypeOf(2)
  /\ hin.gasEstimates = [v2Swap |-> 1, v3Swap |-> 3, wombatSwap |-> 2]
  /\ hout = <<4>>

\* An error no evaluator catches is raised by the step main() is about to
\* take: the row append fails, or a successful outcome carries no amount to
\* subtract from.
UncaughtInCycle ==
  /\ pc = "persist"
  /\ \/ r.ok /\ ~IsBigInt(r.out)
     \/ FsOutcome(file, disk) # "ok"

\* The data rows of the file (its lines but the header lines).
DataRows(f) == SelectSeq(f.lines, LAMBDA l : l # HeaderLine(CSV_HEADERS))

C14_Step ==
  /\ UncaughtInCycle =>
       /\ pc' = "exit"
       /\ exitCode' = 1
       /\ DataRows(file') = DataRows(file)
       /\ batchResults' = batchResults \/ Len(batchResults') = Len(batchResults) + 1
  /\ pc = "start" =>
       \/ pc' = "loop" /\ exitCode' = 0
       \/ pc' = "exit" /\ exitCode' = 1 /\ file' = file /\ ncalls' = 0 /\ cycle' = 0
  /\ pc = "exit" =>
       /\ pc' = "exit"
       /\ ncalls' = ncalls
       /\ file' = file
       /\ cycle' = cycle

\* C14: a failing fee-data fetch, a failing row append and any other error
\* raised outside the evaluators' catch end the process with status 1; from
\* then on no quote call is issued, no row is written and no cycle starts,
\* and the process has status 1 exactly when it has ended.
C14_UncaughtErrorTerminates ==
  /\ []((pc = "exit") <=> (exitCode = 1))
  /\ [](pc = "exit" => (inflight = 0 /\ pending = NoCall /\ exitCode # 0))
  /\ [][C14_Step]_vars

\* The fourth append of the first cycle fails on a full disk.
C14_Witness ==
  /\ pc = "exit"
  /\ exitCode = 1
  /\ cycle = 1
  /\ disk = 4
  /\ Len(attempts) = 4
  /\ Len(DataRows(file)) = 3

\* The quote calls the model issues in a run are used up.
OutOfCalls == pc = "eval" /\ ncalls >= MaxCalls

\* C15: when every awaited quote call settles and every step of main() is
\* taken, the first cycle reaches its report whatever quotes fail, unless a
\* fatal error ends the process; after the report the second cycle starts;
\* and every cycle under way reaches its report and its sleep, unless a
\* fatal error ends the process or the calls of the run are used up.
C15_LoopRunsOn ==
  /\ (cycle = 1 /\ nreports = 0) ~> (nreports = 1 \/ pc = "exit")
  /\ (cycle = 1 /\ nreports = 1) ~> (cycle = 2)
  /\ (cycle >= 1 /\ pc \in {"eval", "await", "persist", "rank"})
       ~> (pc = "sleep" \/ pc = "exit" \/ OutOfCalls)
  /\ (pc = "sleep") ~> (pc = "eval")

\* The second cycle evaluates after a first one with failures and successes.
C15_Witness ==
  /\ cycle = 2
  /\ pc = "eval"
  /\ nreports = 1
  /\ nsleeps = 1
  /\ lastErr.leg # 0
  /\ Len(ranked) >= 1
  /\ Len(DataRows(file)) = 5

\* The data rows written since the cycle started, counted from the length
\* of the file (the run writes one header line, first, to a missing file).
RowsInCycle ==
  Len(file.lines) - cycleStartLen
    - (IF cycleStartLen = 0 /\ ~fileAtStart.exists /\ Len(file.lines) > 0 THEN 1 ELSE 0)

\* The (size, route) evaluated k-th in a cycle.
PairAt(k) == [si |-> ((k - 1) \div 5) + 1, ri |-> ((k - 1) % 5) + 1]

\* The fields of a row are those of the attempt on (i, j).
RowIsFor(f, i, j) == f[2] = <<ExpectedRouteType(j)>> /\ f[3] = sizesWBNB(cfg)[i]

C16_Step ==
  /\ (Len(file'.lines) > Len(file.lines)
        /\ file'.lines[Len(file'.lines)] # HeaderLine(CSV_HEADERS)) =>
       /\ pc = "persist"
       /\ inflight = 0
       /\ Len(attempts) = RowsInCycle + 1
       /\ attempts[Len(attempts)].si = si /\ attempts[Len(attempts)].ri = ri
       /\ attempts[Len(attempts)].ok = r.ok
       /\ RowIsFor(SplitComma(file'.lines[Len(file'.lines)]), si, ri)
  /\ ncalls' > ncalls =>
       /\ pc = "eval"
       /\ RowsInCycle = Len(attempts)
       /\ PairAt(Len(attempts) + 1) = [si |-> si, ri |-> ri]

\* C16: the row of an attempt is appended after the attempt's last quote
\* call has settled and before any quote call of the next attempt is issued:
\* whenever a call is issued or awaited every finished attempt of the cycle
\* has its row, and the rows of a cycle are in evaluation order, sizes in
\* the configured order and within a size V2→V3, V3→V2, TRI, TRI_WOMBAT_A,
\* TRI_WOMBAT_B.
C16_RowsInEvaluationOrder ==
  /\ [](\A k \in 1..Len(attempts) :
          attempts[k].si = PairAt(k).si /\ attempts[k].ri = PairAt(k).ri)
  /\ []((cycle >= 1 /\ pc \in {"eval", "await"}) => RowsInCycle = Len(attempts))
  /\ [](pc = "persist" =>
          (RowsInCycle = Len(attempts) - 1 /\ inflight = 0 /\ pending = NoCall))
  /\ [](CycleEvaluated =>
          LET fields == FieldsOf(CycleRows)
          IN /\ Len(fields) = RowsInCycle
             /\ \A k \in 1..Len(fields) : RowIsFor(fields[k], PairAt(k).si, PairAt(k).ri))
  /\ [][C16_Step]_vars

\* The second route of the second size is being quoted with six rows
\* written.
C16_Witness ==
  /\ pc = "await"
  /\ cycle = 1
  /\ si = 2
  /\ ri = 2
  /\ Len(attempts) = 6
  /\ RowsInCycle = 6
  /\ Len(CycleRows) = 6

\* The attempts of the cycle that succeeded, in order.
OkAttempts == SelectSeq(attempts, LAMBDA a : a.ok)

\* C17: between the attempts of a cycle and at its ranking the batch holds,
\* in order, one entry for each attempt of the cycle that succeeded, profit
\* or loss, and nothing else: none for a failed attempt, none of an earlier
\* cycle; the ranked list and the printed table of the cycle list only
\* entries of the batch, all of them when they are at most 10.
C17_BatchHoldsTheSuccesses ==
  /\ (cycle >= 1 /\ pc \in {"eval", "await", "rank", "sleep", "loop"}) =>
       LET oks == OkAttempts
       IN /\ Len(batchResults) = Len(oks)
          /\ \A j \in 1..Len(batchResults) :
               /\ batchResults[j].routeType = ExpectedRouteType(oks[j].ri)
               /\ batchResults[j].size = sizesWBNB(cfg)[oks[j].si]
               /\ batchResults[j].pnl = batchResults[j].out - batchResults[j].in
  /\ (cycle >= 1 /\ pc \in {"sleep", "loop"}) =>
       /\ Len(ranked) = (IF Len(batchResults) < 10 THEN Len(batchResults) ELSE 10)
       /\ Len(console.table) = Len(ranked)
       /\ \A i \in 1..Len(ranked) :
            /\ \E j \in 1..Len(batchResults) : ranked[i] = batchResults[j]
            /\ \E k \in 1..Len(attempts) :
                 /\ attempts[k].ok
                 /\ console.table[i].routeType = ExpectedRouteType(attempts[k].ri)
                 /\ console.table[i].sizeWBNB = sizesWBNB(cfg)[attempts[k].si]

\* A cycle with a losing success, a winning one and failures is ranked.
C17_Witness ==
  /\ pc = "sleep"
  /\ cycle = 1
  /\ Len(batchResults) = 2
  /\ \E j \in 1..Len(batchResults) : batchResults[j].pnl < 0
  /\ \E k \in 1..Len(attempts) : ~attempts[k].ok
  /\ Len(ranked) = 2
  /\ ranked[2].pnl < 0

\* The calls of the running evaluation that have not settled.
Unsettled == {i \in 1..Len(calls) : calls[i].result = "pending"}

C18_Step ==
  ncalls' > ncalls =>
    /\ inflight = 0
    /\ pending = NoCall
    /\ Unsettled = {}
    /\ inflight' = 1
    /\ ncalls' = ncalls + 1

\* C18: at most one quote call is outstanding at any time: a call is
\* outstanding exactly while it is awaited, it is the last one issued, and a
\* call is issued only when every call issued before, of this route, another
\* route or another size, has returned or failed.
C18_OneCallOutstanding ==
  /\ [](/\ inflight \in {0, 1}
        /\ Cardinality(Unsettled) = inflight
        /\ (inflight = 1) <=> (pc = "await")
        /\ inflight = 1 => (Unsettled = {Len(calls)} /\ pending = calls[Len(calls)].call)
        /\ inflight = 0 => pending = NoCall)
  /\ [][C18_Step]_vars

\* The third call of a route of the second size is awaited, the calls
\* before it settled.
C18_Witness ==
  /\ pc = "await"
  /\ inflight = 1
  /\ si = 2
  /\ Len(calls) = 3
  /\ calls[1].result = "ok"
  /\ calls[2].result = "failed"
  /\ calls[3].result = "pending"

\* C19: an evaluation of the single-DEX triangle issues one quote call and
\* no more, getAmountsOut with the path base, stable1, stable-legacy, base
\* and the size as input; its outcome is a success whose output is the last
\* of the four amounts of that call, or a failure when that call failed.
C19_TriangleIsOneCall ==
  ri = 3 =>
    /\ Len(calls) <= 1
    /\ \A i \in 1..Len(calls) :
         /\ calls[i].call.method = "getAmountsOut"
         /\ calls[i].call.path = <<"WBNB", "USDT", "BUSD", "WBNB">>
         /\ calls[i].call.amountIn = BigIntV(SizeIn(cfg, si))
    /\ pc = "persist" =>
         /\ Len(calls) = 1
         /\ r.routeType = "TRI"
         /\ r.ok <=> calls[1].result = "ok"
         /\ r.ok =>
              /\ r.in = SizeIn(cfg, si)
              /\ r.out = calls[1].value
              /\ r.out = BigIntV(Moved(SizeIn(cfg, si), 3 * env.delta.V2))

\* The triangle of the first size returns 1150 from its one call.
C19_Witness ==
  /\ ri = 3
  /\ si = 1
  /\ pc = "persist"
  /\ Len(calls) = 1
  /\ calls[1].call.path = <<"WBNB", "USDT", "BUSD", "WBNB">>
  /\ r.ok
  /\ r.out = BigIntV(1150)

\* ------------------------------------------------------------ C20

\* The calls of the V3 quoter.
V3Methods == {"quoteExactInputSingle", "quoteExactInput"}

\* C20: whatever the V3 quoter call resolves to, quoteV3Single yields one
\* unsigned integer or throws its failure: every V3 call that resolved gave
\* an integer, no call is issued with an amount that is no integer, no
\* successful outcome carries an output that is no integer, and the process
\* does not end on a value the quoter returned.
C20_V3YieldsIntegerOrFailure ==
  /\ \A i \in 1..Len(calls) :
       /\ (calls[i].call.method \in V3Methods /\ calls[i].result = "ok") =>
            IsBigInt(calls[i].value)
       /\ IsBigInt(calls[i].call.amountIn)
  /\ (pc \in {"persist", "exit"} /\ r.ok) => IsBigInt(r.out)

\* The quoter resolved to a value of no known shape on the last leg of
\* V2→V3: the outcome is a success whose output is null, and main() ended
\* with status 1 on the subtraction, no row written for the attempt.
C20_Witness ==
  /\ pc = "exit"
  /\ exitCode = 1
  /\ ri = 1
  /\ Len(calls) >= 2
  /\ calls[Len(calls)].call.method \in V3Methods
  /\ calls[Len(calls)].result = "ok"
  /\ calls[Len(calls)].value = NullV
  /\ r.ok
  /\ r.out = NullV
  /\ RowsInCycle = Len(attempts) - 1

====
